---- MODULE Spec2Model ----
(***************************************************************************)
(* A model of the Imager application: the Image class (a6image.py), the    *)
(* edit history ImageHistory (a6history.py) and the Editor filters         *)
(* (a6editor.py).                                                          *)
(*                                                                         *)
(* Python objects live in a heap: imgs maps an Image object's address to   *)
(* its attributes, bufs maps a pixel list's address to its contents.  An   *)
(* Image refers to its pixel list by address, so that sharing a pixel list *)
(* between two Image objects is expressible and copy() has to be shown to  *)
(* avoid it.  Objects no reference reaches are dropped after every         *)
(* operation, as the interpreter does.                                     *)
(***************************************************************************)
EXTENDS Integers, Sequences, FiniteSets, TLC

VARIABLES
    imgs,       \* heap of Image objects: address -> [pixels, width, height, length]
    bufs,       \* heap of pixel lists:   address -> sequence of <<r, g, b>>
    original,   \* ImageHistory._original (an Image address)
    history,    \* ImageHistory._history  (a sequence of Image addresses)
    held,       \* Image addresses the caller holds besides the editor's
    lastOp,     \* name of the operation that ran last
    arg,        \* its argument, as a sequence of integers
    ret,        \* its result: "True", "False", "None", "Text", "Error" or "-"
    out,        \* the text decode returned (a sequence of character codes)
    prevOp,     \* after a filter: name of the operation that ran before it
    val1,       \* after a filter: value of the current image before it ran
    val2,       \* after two filters: that value before the first of them ran
    clean,      \* no undo and no clear has run since construction
    nSnap,      \* number of increment calls since construction while clean
    nEdit,      \* number of mutating image operations and filters run
    lim,        \* the limits of this run: [depth, edit, held]
    prior,      \* [valid, val, ops]: the current image just before the last
                \* increment and the filters run since
    orig0,      \* value of the original image at construction
    msg         \* [valid, text]: the text the last successful encode hid

vars == <<imgs, bufs, original, history, held, lastOp, arg, ret, out, prevOp,
          val1, val2, clean, nSnap, nEdit, lim, prior, orig0, msg>>

(***************************************************************************)
(* Bounds of the model.                                                    *)
(***************************************************************************)
MaxSnap == 25       \* increment calls in a run of increments and filters
LongEdits == 0      \* filters in a run with a history of any depth
ShortDepth == 3     \* depth of the history in a run with more filters
ShortEdits == 2     \* filters in such a run
MaxPixels == 6      \* pixels of an image
MaxArea == 4        \* pixels of an image in a run of SpecImage
MaxTurns == 3       \* transposes and rotations in a run of SpecGeom
MaxImageOps == 1    \* image operations and filters in a run of SpecImage
MaxHeld == 1        \* copies the caller makes in a run of SpecImage
MaxText == 2        \* characters of a text
MaxEncodes == 1     \* encode calls in a run of SpecSteg
MaxMarked == 4      \* pixels of an image in a run of SpecDecode
MaxLetters == 1     \* _encode_pixel calls in a run of SpecChannel
MaxStep == 3        \* step of pixellate
MaxPixellates == 2  \* pixellate calls in a run of SpecPixellate
MaxJailWidth == 110 \* width of an image in a run of SpecJail
MaxJailHeight == 7  \* height of such an image
MaxJails == 1       \* jail calls in a run of SpecJail

\* The number of edits that we are allowed to keep track of.
MAX_HISTORY == 20

(***************************************************************************)
(* The heap.                                                               *)
(***************************************************************************)
Heap == [imgs |-> imgs, bufs |-> bufs, err |-> FALSE]

\* The lowest address that is not in use in heap f.
Fresh(f) ==
    CHOOSE n \in 1..(Cardinality(DOMAIN f) + 1) :
        /\ n \notin DOMAIN f
        /\ \A m \in 1..(n - 1) : m \in DOMAIN f

Raise(h) == [h EXCEPT !.err = TRUE]

Range(s) == {s[k] : k \in 1..Len(s)}

\* The distinct elements of s, in the order of their first occurrence.
RECURSIVE Distinct(_)
Distinct(s) ==
    IF Len(s) = 0 THEN <<>>
    ELSE LET d == Distinct(SubSeq(s, 1, Len(s) - 1))
         IN  IF s[Len(s)] \in Range(d) THEN d ELSE Append(d, s[Len(s)])

Index(d, x) == CHOOSE k \in 1..Len(d) : d[k] = x

\* Drops every object that no address in refs reaches and moves the rest to
\* the lowest addresses, in the order in which refs reaches them (addresses
\* cannot be observed, sharing can: it is kept).  The result is the heap
\* and refs in the new addresses.
Collect(h, refs) ==
    LET live == Distinct(refs)
        used == Distinct([k \in 1..Len(live) |-> h.imgs[live[k]].pixels])
    IN  [imgs |-> [k \in 1..Len(live) |->
                     [h.imgs[live[k]] EXCEPT !.pixels = Index(used, @)]],
         bufs |-> [k \in 1..Len(used) |-> h.bufs[used[k]]],
         refs |-> [k \in 1..Len(refs) |-> Index(live, refs[k])]]

(***************************************************************************)
(* The pixel list (module pixels).  A pixel is a tuple of three channels   *)
(* in 0..255; the list refuses anything else, and any position outside     *)
(* it.  A slice of the whole list is a new list with the same contents.    *)
(***************************************************************************)
IsPixel(p) == \A c \in 1..3 : p[c] \in 0..255

PixelsSetItem(h, b, n, pixel) ==
    IF h.err THEN h
    ELSE IF n \in 0..(Len(h.bufs[b]) - 1) /\ IsPixel(pixel)
         THEN [h EXCEPT !.bufs[b][n + 1] = pixel]
         ELSE Raise(h)

PixelsSlice(h, b) ==
    LET nb == Fresh(h.bufs)
    IN  [h |-> [h EXCEPT !.bufs = h.bufs @@ (nb :> h.bufs[b])], id |-> nb]

(***************************************************************************)
(* class Image                                                             *)
(***************************************************************************)
\* Image.__init__(data, width): data is the address of a pixel list.
ImageInit(h, data, width) ==
    IF h.err \/ ~(width > 0) \/ Len(h.bufs[data]) % width # 0
    THEN [h |-> Raise(h), id |-> 0]
    ELSE LET n      == Fresh(h.imgs)
             length == Len(h.bufs[data])
         IN  [h  |-> [h EXCEPT !.imgs = h.imgs @@
                        (n :> [pixels |-> data, width |-> width,
                               height |-> length \div width, length |-> length])],
              id |-> n]

\* setWidth without the line that derives the height.
setWidthOnly(h, i, value) ==
    IF h.err \/ ~(value > 0) \/ h.imgs[i].length % value # 0
    THEN Raise(h)
    ELSE [h EXCEPT !.imgs[i].width = value]

setWidth(h, i, value) ==
    IF h.err \/ ~(value > 0) \/ h.imgs[i].length % value # 0
    THEN Raise(h)
    ELSE [h EXCEPT !.imgs[i].width  = value,
                   !.imgs[i].height = h.imgs[i].length \div value]

\* setHeight without the line that derives the width.
setHeightOnly(h, i, value) ==
    IF h.err \/ ~(value > 0) \/ h.imgs[i].length % value # 0
    THEN Raise(h)
    ELSE [h EXCEPT !.imgs[i].height = value]

setHeight(h, i, value) ==
    IF h.err \/ ~(value > 0) \/ h.imgs[i].length % value # 0
    THEN Raise(h)
    ELSE [h EXCEPT !.imgs[i].height = value,
                   !.imgs[i].width  = h.imgs[i].length \div value]

\* The assertions of getPixel and setPixel.
InImage(h, i, row, col) ==
    /\ row >= 0 /\ row < h.imgs[i].height
    /\ col >= 0 /\ col < h.imgs[i].width

getFlatPixel(h, i, n) == h.bufs[h.imgs[i].pixels][n + 1]

setFlatPixel(h, i, n, pixel) ==
    IF h.err THEN h ELSE PixelsSetItem(h, h.imgs[i].pixels, n, pixel)

\* The value getPixel returns where its assertions hold.
getPixel(h, i, row, col) == getFlatPixel(h, i, row * h.imgs[i].width + col)

setPixel(h, i, row, col, pixel) ==
    IF h.err \/ ~InImage(h, i, row, col)
    THEN Raise(h)
    ELSE PixelsSetItem(h, h.imgs[i].pixels, row * h.imgs[i].width + col, pixel)

swapPixels(h, i, row1, col1, row2, col2) ==
    IF h.err \/ ~InImage(h, i, row2, col2) \/ ~InImage(h, i, row1, col1)
    THEN Raise(h)
    ELSE LET a == getPixel(h, i, row2, col2)
             b == getPixel(h, i, row1, col1)
         IN  setPixel(setPixel(h, i, row1, col1, a), i, row2, col2, b)

\* copy that hands the pixel list itself, not a slice of it, to the new Image.
copyShared(h, i) == ImageInit(h, h.imgs[i].pixels, h.imgs[i].width)

\* copy that returns the Image itself.
copySelf(h, i) == [h |-> h, id |-> i]

copy(h, i) ==
    LET newdata == PixelsSlice(h, h.imgs[i].pixels)
    IN  ImageInit(newdata.h, newdata.id, h.imgs[i].width)

\* What an observer sees of Image i: its pixels and its dimensions.
ImgVal(h, i) ==
    [pixels |-> h.bufs[h.imgs[i].pixels],
     width  |-> h.imgs[i].width,
     height |-> h.imgs[i].height]


(***************************************************************************)
(* class ImageHistory                                                      *)
(***************************************************************************)
getCurrent(hist) == hist[Len(hist)]

\* ImageHistory.__init__(original): the result is [h, hist].
historyInit(h, orig) ==
    LET c == copy(h, orig)
    IN  [h |-> c.h, hist |-> <<c.id>>]

\* undo that removes the oldest edit, not the latest.
undoFirst(hist) ==
    IF Len(hist) > 1
    THEN [hist |-> Tail(hist), ret |-> "True"]
    ELSE [hist |-> hist, ret |-> "False"]

\* The result is [hist, ret].
undo(hist) ==
    IF Len(hist) > 1
    THEN [hist |-> SubSeq(hist, 1, Len(hist) - 1), ret |-> "True"]
    ELSE [hist |-> hist, ret |-> "False"]

\* clear that puts the original itself, not a copy of it, in the history.
clearNoCopy(h, orig) == [h |-> h, hist |-> <<orig>>]

clear(h, orig) ==
    LET c == copy(h, orig)
    IN  [h |-> c.h, hist |-> <<c.id>>]

\* increment that never deletes the oldest edit.
incrementNoEvict(h, hist) ==
    LET c == copy(h, getCurrent(hist))
    IN  [h |-> c.h, hist |-> Append(hist, c.id)]

\* increment that deletes the oldest edit one entry too early.
incrementEarly(h, hist) ==
    LET c        == copy(h, getCurrent(hist))
        appended == Append(hist, c.id)
    IN  [h    |-> c.h,
         hist |-> IF Len(appended) >= MAX_HISTORY THEN Tail(appended) ELSE appended]

increment(h, hist) ==
    LET c        == copy(h, getCurrent(hist))
        appended == Append(hist, c.id)
    IN  [h    |-> c.h,
         hist |-> IF Len(appended) > MAX_HISTORY THEN Tail(appended) ELSE appended]

(***************************************************************************)
(* class Editor: the filters.  Each takes the heap and the address of the  *)
(* current image and gives the heap it leaves; a failed assertion or a     *)
(* value the pixel list refuses sets err and stops the filter there.       *)
(***************************************************************************)
RECURSIVE invertFrom(_, _, _)
invertFrom(h, current, pos) ==
    IF h.err \/ pos >= h.imgs[current].length THEN h
    ELSE LET rgb == getFlatPixel(h, current, pos)
         IN  invertFrom(setFlatPixel(h, current, pos,
                            <<255 - rgb[1], 255 - rgb[2], 255 - rgb[3]>>),
                        current, pos + 1)

invert(h, current) == invertFrom(h, current, 0)

\* The place of the reference copy that each loop body reads for (row, col).
transposeAt(h, org, row, col)   == <<col, row>>
rotateRightAt(h, org, row, col) == <<h.imgs[org].height - col - 1, row>>
\* rotateLeft reading the place that rotateRight reads.
rotateLeftAsRight(h, org, row, col) == <<h.imgs[org].height - col - 1, row>>
rotateLeftAt(h, org, row, col)  == <<col, h.imgs[org].width - row - 1>>

readAt(filter, h, org, row, col) ==
    CASE filter = "transpose"   -> transposeAt(h, org, row, col)
      [] filter = "rotateRight" -> rotateRightAt(h, org, row, col)
      [] filter = "rotateLeft"  -> rotateLeftAt(h, org, row, col)

\* The nested loops over range(height) and range(width) of the reshaped
\* current image, in their order: k counts the loop bodies already run.
RECURSIVE redrawFrom(_, _, _, _, _)
redrawFrom(h, current, org, filter, k) ==
    IF h.err \/ k >= h.imgs[current].height * h.imgs[current].width THEN h
    ELSE LET row == k \div h.imgs[current].width
             col == k % h.imgs[current].width
             at  == readAt(filter, h, org, row, col)
         IN  IF ~InImage(h, org, at[1], at[2]) THEN Raise(h)
             ELSE redrawFrom(setPixel(h, current, row, col,
                                      getPixel(h, org, at[1], at[2])),
                             current, org, filter, k + 1)

transpose(h, current) ==
    LET c == copy(h, current)
    IN  redrawFrom(setWidth(c.h, current, c.h.imgs[current].height),
                   current, c.id, "transpose", 0)

rotateRight(h, current) ==
    LET c == copy(h, current)
    IN  redrawFrom(setWidth(c.h, current, c.h.imgs[current].height),
                   current, c.id, "rotateRight", 0)

rotateLeft(h, current) ==
    LET c == copy(h, current)
    IN  redrawFrom(setWidth(c.h, current, c.h.imgs[current].height),
                   current, c.id, "rotateLeft", 0)

\* for h in range(width//2): for row in range(height)
RECURSIVE reflectHoriFrom(_, _, _)
reflectHoriFrom(h, current, k) ==
    LET width  == h.imgs[current].width
        height == h.imgs[current].height
    IN  IF h.err \/ k >= (width \div 2) * height THEN h
        ELSE LET col == k \div height
                 row == k % height
             IN  reflectHoriFrom(
                     swapPixels(h, current, row, col, row, width - 1 - col),
                     current, k + 1)

reflectHori(h, current) == reflectHoriFrom(h, current, 0)

\* for r in range(height//2): for h in range(width)
RECURSIVE reflectVertFrom(_, _, _)
reflectVertFrom(h, current, k) ==
    LET width  == h.imgs[current].width
        height == h.imgs[current].height
    IN  IF h.err \/ k >= (height \div 2) * width THEN h
        ELSE LET r   == k \div width
                 col == k % width
             IN  reflectVertFrom(
                     swapPixels(h, current, r, col, height - 1 - r, col),
                     current, k + 1)

reflectVert(h, current) == reflectVertFrom(h, current, 0)

(***************************************************************************)
(* Steganography.  A text is a sequence of character codes; str and int of *)
(* the code are modelled on decimal digit sequences.                       *)
(***************************************************************************)
\* str(n) for n >= 0, as its sequence of digits.
RECURSIVE Str(_)
Str(n) == IF n < 10 THEN <<n>> ELSE Append(Str(n \div 10), n % 10)

\* int(s) for a sequence of digits s.
RECURSIVE IntOf(_)
IntOf(s) == IF Len(s) = 0 THEN 0
          ELSE 10 * IntOf(SubSeq(s, 1, Len(s) - 1)) + s[Len(s)]

\* The slice s[0:n].
Slice(s, n) == SubSeq(s, 1, IF Len(s) < n THEN Len(s) ELSE n)

decode_pixel(h, current, pos) ==
    LET rgb == getFlatPixel(h, current, pos)
    IN  (rgb[1] % 10) * 100 + (rgb[2] % 10) * 10 + (rgb[3] % 10)

\* b: str(ord(letter)) padded with zeros to three digits.
Padded(a) ==
    LET b == Str(a)
    IN  IF Len(b) = 2 THEN <<0>> \o b
        ELSE IF Len(b) = 1 THEN <<0, 0>> \o b
        ELSE b

\* One channel of _encode_pixel: v the channel, d the digit of the code.
encode_channel(v, d) ==
    LET n == IntOf(Append(Slice(Str(v), 2), d))
    IN  IF n > 255 THEN n - 10 ELSE n

\* The pixel list refuses a position outside it.
encode_pixel(h, current, letter, pos) ==
    IF h.err THEN h
    ELSE IF pos >= h.imgs[current].length THEN Raise(h)
    ELSE LET b   == Padded(letter)
             rgb == getFlatPixel(h, current, pos)
         IN  setFlatPixel(h, current, pos,
                 <<encode_channel(rgb[1], b[1]),
                   encode_channel(rgb[2], b[2]),
                   encode_channel(rgb[3], b[3])>>)

\* The calls of _encode_pixel that encode makes, in their order: letters
\* holds the begin marker, the text and the end marker.
RECURSIVE encodeFrom(_, _, _, _)
encodeFrom(h, current, letters, k) ==
    IF h.err \/ k > Len(letters) THEN h
    ELSE encodeFrom(encode_pixel(h, current, letters[k], k - 1),
                    current, letters, k + 1)

\* encode that lets through a text one character too long for the image.
encodeTight(h, current, text) ==
    IF Len(text) > 999999 \/ Len(text) + 3 > h.imgs[current].length
    THEN [h |-> h, ret |-> "False"]
    ELSE LET done == encodeFrom(h, current,
                         <<125, 126>> \o text \o <<126, 125>>, 1)
         IN  [h |-> done, ret |-> IF done.err THEN "Error" ELSE "True"]

\* The result is [h, ret].
encode(h, current, text) ==
    IF Len(text) > 999999 \/ Len(text) + 4 > h.imgs[current].length
    THEN [h |-> h, ret |-> "False"]
    ELSE LET done == encodeFrom(h, current,
                         <<125, 126>> \o text \o <<126, 125>>, 1)
         IN  [h |-> done, ret |-> IF done.err THEN "Error" ELSE "True"]

\* for y in range(2, length): i is the text read so far.
RECURSIVE decodeFrom(_, _, _, _)
decodeFrom(h, current, y, i) ==
    IF y >= h.imgs[current].length THEN [ret |-> "None", out |-> <<>>]
    ELSE IF decode_pixel(h, current, y) = 126 THEN [ret |-> "Text", out |-> i]
    ELSE decodeFrom(h, current, y + 1, Append(i, decode_pixel(h, current, y)))

\* The result is [ret, out].
decode(h, current) ==
    IF decode_pixel(h, current, 0) = 125
    THEN decodeFrom(h, current, 2, <<>>)
    ELSE [ret |-> "None", out |-> <<>>]

(***************************************************************************)
(* class Editor: pixellate                                                 *)
(***************************************************************************)
\* round(r / n) for integers r >= 0 and n > 0: the nearest integer, and the
\* even one of the two when r / n lies halfway between them.
round(r, n) ==
    LET q == r \div n
        m == r % n
    IN  IF 2 * m < n THEN q
        ELSE IF 2 * m > n THEN q + 1
        ELSE IF q % 2 = 0 THEN q ELSE q + 1

\* The first pair of loops of pixelavg, from its k-th pass on: the sums
\* <<r, g, b>> over the pixels of the block that lie in the image.
RECURSIVE pixelsum(_, _, _, _, _, _)
pixelsum(h, current, x, y, step, k) ==
    IF k >= step * step THEN <<0, 0, 0>>
    ELSE LET s    == k \div step
             t    == k % step
             rest == pixelsum(h, current, x, y, step, k + 1)
         IN  IF x + s < h.imgs[current].height /\ y + t < h.imgs[current].width
             THEN LET a == getPixel(h, current, x + s, y + t)
                  IN  <<rest[1] + a[1], rest[2] + a[2], rest[3] + a[3]>>
             ELSE rest

\* The second pair of loops of pixelavg, from its k-th pass on.
RECURSIVE pixelfill(_, _, _, _, _, _, _)
pixelfill(h, current, x, y, step, avgpixel, k) ==
    IF h.err \/ k >= step * step THEN h
    ELSE LET s == k \div step
             t == k % step
         IN  pixelfill(IF x + s < h.imgs[current].height
                          /\ y + t < h.imgs[current].width
                       THEN setPixel(h, current, x + s, y + t, avgpixel)
                       ELSE h,
                       current, x, y, step, avgpixel, k + 1)

pixelavg(h, current, x, y, step) ==
    IF h.err THEN h
    ELSE LET sum      == pixelsum(h, current, x, y, step, 0)
             avgpixel == <<round(sum[1], step * step),
                           round(sum[2], step * step),
                           round(sum[3], step * step)>>
         IN  pixelfill(h, current, x, y, step, avgpixel, 0)

\* The loops of pixellate from the k-th block on: the blocks of a column of
\* blocks from the top down, the columns of blocks from the left.
RECURSIVE pixellateFrom(_, _, _, _)
pixellateFrom(h, current, step, k) ==
    LET down   == (h.imgs[current].height + step - 1) \div step
        across == (h.imgs[current].width + step - 1) \div step
    IN  IF h.err \/ k >= down * across THEN h
        ELSE pixellateFrom(pixelavg(h, current, (k % down) * step,
                                    (k \div down) * step, step),
                           current, step, k + 1)

\* step > 0.
pixellate(h, current, step) == pixellateFrom(h, current, step, 0)

(***************************************************************************)
(* class Editor: jail                                                      *)
(***************************************************************************)
\* The loop of _drawVBar from row on.
RECURSIVE drawVBarFrom(_, _, _, _, _)
drawVBarFrom(h, current, col, pixel, row) ==
    IF h.err \/ row >= h.imgs[current].height THEN h
    ELSE drawVBarFrom(
             setPixel(setPixel(setPixel(setPixel(h,
                 current, row, col, pixel),
                 current, row, col + 1, pixel),
                 current, row, col + 2, pixel),
                 current, row, col + 3, pixel),
             current, col, pixel, row + 1)

drawVBar(h, current, col, pixel) == drawVBarFrom(h, current, col, pixel, 0)

\* The loop of _drawHBar from col on.
RECURSIVE drawHBarFrom(_, _, _, _, _)
drawHBarFrom(h, current, row, pixel, col) ==
    IF h.err \/ col >= h.imgs[current].width THEN h
    ELSE drawHBarFrom(
             setPixel(setPixel(setPixel(h,
                 current, row, col, pixel),
                 current, row + 1, col, pixel),
                 current, row + 2, col, pixel),
             current, row, pixel, col + 1)

drawHBar(h, current, row, pixel) == drawHBarFrom(h, current, row, pixel, 0)

\* The loop of jail from y on, for n # 0.  x is (width - 8 - 4 * n) / n, so
\* that 4 * (y + 1) + (y + 1) * x is the fraction rounded here.
RECURSIVE jailFrom(_, _, _, _)
jailFrom(h, current, n, y) ==
    IF h.err \/ y >= n THEN h
    ELSE LET width == h.imgs[current].width
             bar   == round(4 * (y + 1) * n + (y + 1) * (width - 8 - 4 * n), n)
         IN  jailFrom(drawVBar(h, current, bar, <<255, 0, 0>>),
                      current, n, y + 1)

\* The division by n raises ZeroDivisionError when n is 0.
jail(h, current) ==
    LET width  == h.imgs[current].width
        height == h.imgs[current].height
        left   == drawVBar(h, current, 0, <<255, 0, 0>>)
        top    == drawHBar(left, current, 0, <<255, 0, 0>>)
        right  == drawVBar(top, current, width - 4, <<255, 0, 0>>)
        bottom == drawHBar(right, current, height - 3, <<255, 0, 0>>)
        n      == (width - 8) \div 50
    IN  IF bottom.err THEN bottom
        ELSE IF n = 0 THEN Raise(bottom)
        ELSE jailFrom(bottom, current, n, 0)

(***************************************************************************)
(* The state machine.  An action is one call of the caller: it runs the    *)
(* operation on the heap, drops what is no longer referenced and records   *)
(* the call in the bookkeeping variables.                                  *)
(***************************************************************************)
Current == getCurrent(history)

CurVal == ImgVal(Heap, Current)

NoMsg == [valid |-> FALSE, text |-> <<>>]

NoPrior == [valid |-> FALSE, val |-> orig0, ops |-> <<>>]

FilterOps == {"invert", "transpose", "rotateRight", "rotateLeft",
              "reflectHori", "reflectVert", "encode", "encode_pixel",
              "pixellate", "jail"}

\* The part of a step that every operation shares: h, hist and hld are the
\* heap, the history and the caller's images that the operation leaves.
\* prevOp, val1 and val2 follow a run of filters and are reset by any other
\* operation.
Step(h, hist, hld, op, a, r, o) ==
    LET kept == Collect(h, <<original>> \o hist \o hld)
    IN  /\ imgs' = kept.imgs
        /\ bufs' = kept.bufs
        /\ original' = kept.refs[1]
        /\ history' = SubSeq(kept.refs, 2, 1 + Len(hist))
        /\ held' = SubSeq(kept.refs, 2 + Len(hist), Len(kept.refs))
        /\ lastOp' = op
        /\ arg' = a
        /\ ret' = IF h.err THEN "Error" ELSE r
        /\ out' = o
        /\ prevOp' = IF op \in FilterOps THEN lastOp ELSE "-"
        /\ val1' = IF op \in FilterOps THEN CurVal ELSE orig0
        /\ val2' = IF op \in FilterOps THEN val1 ELSE orig0
        /\ UNCHANGED <<lim, orig0>>

\* A filter of the Editor, run on the current image.
Filter(op, a, h, r) ==
    /\ nEdit < lim.edit
    /\ Step(h, history, held, op, a, r, <<>>)
    /\ nEdit' = nEdit + 1
    /\ prior' = [prior EXCEPT !.ops = IF prior.valid THEN Append(@, op) ELSE <<>>]
    /\ UNCHANGED <<nSnap, clean>>

Increment ==
    /\ Len(history) < lim.depth
    /\ clean => nSnap < MaxSnap
    /\ LET e == increment(Heap, history)
       IN  Step(e.h, e.hist, held, "increment", <<>>, "None", <<>>)
    /\ nSnap' = IF clean THEN nSnap + 1 ELSE 0
    /\ prior' = [valid |-> TRUE, val |-> CurVal, ops |-> <<>>]
    /\ msg' = NoMsg
    /\ UNCHANGED <<clean, nEdit>>

Undo ==
    /\ LET u == undo(history)
       IN  Step(Heap, u.hist, held, "undo", <<>>, u.ret, <<>>)
    /\ clean' = FALSE
    /\ nSnap' = 0
    /\ prior' = [prior EXCEPT !.valid = FALSE]
    /\ msg' = NoMsg
    /\ UNCHANGED nEdit

Clear ==
    /\ LET e == clear(Heap, original)
       IN  Step(e.h, e.hist, held, "clear", <<>>, "None", <<>>)
    /\ clean' = FALSE
    /\ nSnap' = 0
    /\ prior' = NoPrior
    /\ msg' = NoMsg
    /\ UNCHANGED nEdit

Invert ==
    /\ Filter("invert", <<>>, invert(Heap, Current), "None")
    /\ msg' = NoMsg

Transpose ==
    /\ Filter("transpose", <<>>, transpose(Heap, Current), "None")
    /\ msg' = NoMsg

RotateRight ==
    /\ Filter("rotateRight", <<>>, rotateRight(Heap, Current), "None")
    /\ msg' = NoMsg

RotateLeft ==
    /\ Filter("rotateLeft", <<>>, rotateLeft(Heap, Current), "None")
    /\ msg' = NoMsg

ReflectHori ==
    /\ Filter("reflectHori", <<>>, reflectHori(Heap, Current), "None")
    /\ msg' = NoMsg

ReflectVert ==
    /\ Filter("reflectVert", <<>>, reflectVert(Heap, Current), "None")
    /\ msg' = NoMsg

Encode(text) ==
    LET e == encode(Heap, Current, text)
    IN  /\ Filter("encode", text, e.h, e.ret)
        /\ msg' = IF e.ret = "True" THEN [valid |-> TRUE, text |-> text]
                  ELSE NoMsg

Jail ==
    /\ Filter("jail", <<>>, jail(Heap, Current), "None")
    /\ msg' = NoMsg

Pixellate(step) ==
    /\ Filter("pixellate", <<step>>, pixellate(Heap, Current, step), "None")
    /\ msg' = NoMsg

\* A call of the hidden method _encode_pixel.
EncodePixel(letter, pos) ==
    /\ Filter("encode_pixel", <<letter, pos>>,
              encode_pixel(Heap, Current, letter, pos), "None")
    /\ msg' = NoMsg

Decode ==
    /\ LET d == decode(Heap, Current)
       IN  Step(Heap, history, held, "decode", <<>>, d.ret, d.out)
    /\ UNCHANGED <<nSnap, clean, nEdit, prior, msg>>

(***************************************************************************)
(* The caller's own calls on Image objects.  The caller reaches the        *)
(* original it built the editor on, the images of the history and the      *)
(* copies it made; p is the place of an image among these references.      *)
(***************************************************************************)
Refs == <<original>> \o history \o held

ImageOps == {"setWidth", "setHeight", "setPixel", "setFlatPixel", "swapPixels"}

ImageOp(op, p, h) ==
    /\ nEdit < lim.edit
    /\ Step(h, history, held, op, <<p>>, "None", <<>>)
    /\ nEdit' = nEdit + 1
    /\ prior' = NoPrior
    /\ msg' = NoMsg
    /\ UNCHANGED <<nSnap, clean>>

\* Pixel values a caller writes: the second is not a pixel.
Written == {<<1, 2, 3>>, <<256, 0, 0>>}

\* Rows and columns a caller names: those of the image and one past them.
Rows(p) == 0..imgs[Refs[p]].height
Cols(p) == 0..imgs[Refs[p]].width

SetWidth(p, value) == ImageOp("setWidth", p, setWidth(Heap, Refs[p], value))

SetHeight(p, value) == ImageOp("setHeight", p, setHeight(Heap, Refs[p], value))

SetPixel(p, row, col, pixel) ==
    ImageOp("setPixel", p, setPixel(Heap, Refs[p], row, col, pixel))

SetFlatPixel(p, n, pixel) ==
    ImageOp("setFlatPixel", p, setFlatPixel(Heap, Refs[p], n, pixel))

SwapPixels(p, row1, col1, row2, col2) ==
    ImageOp("swapPixels", p, swapPixels(Heap, Refs[p], row1, col1, row2, col2))

CopyImage(p) ==
    /\ Len(held) < lim.held
    /\ LET c == copy(Heap, Refs[p])
       IN  Step(c.h, history, Append(held, c.id), "copy", <<p>>, "None", <<>>)
    /\ prior' = NoPrior
    /\ msg' = NoMsg
    /\ UNCHANGED <<nSnap, clean, nEdit>>

(***************************************************************************)
(* Construction: the caller builds an Image from a pixel list and a width  *)
(* and an Editor from that Image.                                          *)
(***************************************************************************)
\* Pixel k of sample pixel list a, every channel in 0..255.  List 1 has
\* three-digit channels, the blue ones at the top of the range; list 2 has
\* one-digit channels; list 3 has two-digit red channels.
Pix(a, k) ==
    IF a = 1 THEN <<200 + ((10 * k) % 60), 100 + (k % 100), 250 + (k % 6)>>
    ELSE IF a = 2 THEN <<k % 10, 5, 9>>
    ELSE <<40 + (k % 10), 105, 250>>

Data(a, n) == [k \in 1..n |-> Pix(a, k - 1)]

Construct(data, width, l) ==
    LET h0 == [imgs |-> <<>>, bufs |-> (1 :> data), err |-> FALSE]
        o  == ImageInit(h0, 1, width)
        e  == historyInit(o.h, o.id)
        v  == ImgVal(o.h, o.id)
    IN  /\ imgs = e.h.imgs
        /\ bufs = e.h.bufs
        /\ original = o.id
        /\ history = e.hist
        /\ held = <<>>
        /\ lastOp = "init"
        /\ arg = <<>>
        /\ ret = "-"
        /\ out = <<>>
        /\ prevOp = "-"
        /\ val1 = v
        /\ val2 = v
        /\ nSnap = 0
        /\ clean = TRUE
        /\ nEdit = 0
        /\ lim = l
        /\ prior = [valid |-> FALSE, val |-> v, ops |-> <<>>]
        /\ orig0 = v
        /\ msg = NoMsg

(***************************************************************************)
(* Spec: an Editor over a six-pixel image, driven through its history      *)
(* operations and its filters.                                             *)
(***************************************************************************)
ShortTexts == {<<>>, <<65>>}

\* The image the editor is built on: two rows of three pixels.
Sample == [data |-> Data(1, 6), width |-> 3]

Init ==
    \/ Construct(Sample.data, Sample.width,
           [depth |-> MAX_HISTORY + 1, edit |-> LongEdits, held |-> 0])
    \/ Construct(Sample.data, Sample.width,
           [depth |-> ShortDepth, edit |-> ShortEdits, held |-> 0])

Next ==
    \/ Increment
    \/ Undo
    \/ Clear
    \/ Invert
    \/ Transpose
    \/ RotateRight
    \/ RotateLeft
    \/ ReflectHori
    \/ ReflectVert
    \/ \E text \in ShortTexts : Encode(text)

Spec == Init /\ [][Next]_vars

(***************************************************************************)
(* SpecGeom: the transposition and the two rotations, on an image of every *)
(* width and height.                                                       *)
(***************************************************************************)
Widths(n) == {w \in 1..n : n % w = 0}

InitGeom ==
    \E n \in 1..MaxPixels : \E w \in Widths(n) :
        Construct(Data(1, n), w, [depth |-> 1, edit |-> MaxTurns, held |-> 0])

NextGeom ==
    \/ Transpose
    \/ RotateRight
    \/ RotateLeft

SpecGeom == InitGeom /\ [][NextGeom]_vars

(***************************************************************************)
(* SpecImage: the caller's calls on the images it reaches, and the filters.*)
(***************************************************************************)
InitImage ==
    \E n \in 1..MaxArea : \E w \in Widths(n) :
        Construct(Data(1, n), w,
                  [depth |-> 1, edit |-> MaxImageOps, held |-> MaxHeld])

NextImage ==
    \/ \E p \in 1..Len(Refs) : \E value \in 0..(imgs[Refs[p]].length + 1) :
           SetWidth(p, value)
    \/ \E p \in 1..Len(Refs) : \E value \in 0..(imgs[Refs[p]].length + 1) :
           SetHeight(p, value)
    \/ \E p \in 1..Len(Refs) : \E row \in Rows(p) : \E col \in Cols(p) :
           \E pixel \in Written : SetPixel(p, row, col, pixel)
    \/ \E p \in 1..Len(Refs) : \E n \in 0..imgs[Refs[p]].length :
           \E pixel \in Written : SetFlatPixel(p, n, pixel)
    \/ \E p \in 1..Len(Refs) : \E row \in Rows(p) : \E col \in Cols(p) :
           SwapPixels(p, row, col, 0, 0)
    \/ \E p \in 1..Len(Refs) : CopyImage(p)
    \/ Invert
    \/ Transpose
    \/ RotateRight
    \/ RotateLeft
    \/ ReflectHori
    \/ ReflectVert
    \/ \E text \in ShortTexts : Encode(text)

SpecImage == InitImage /\ [][NextImage]_vars

(***************************************************************************)
(* SpecSteg: encode and decode, on one-row images of either sample pixel   *)
(* list and every text of up to MaxText characters.                        *)
(***************************************************************************)
\* Tab, 'A', '}' and '~'.
Chars == {9, 65, 125, 126}

Texts == UNION {[1..n -> Chars] : n \in 0..MaxText}

InitSteg ==
    \E a \in {1, 2} : \E n \in 4..MaxPixels :
        Construct(Data(a, n), n, [depth |-> 1, edit |-> MaxEncodes, held |-> 0])

NextSteg ==
    \/ \E text \in Texts : Encode(text)
    \/ Decode

SpecSteg == InitSteg /\ [][NextSteg]_vars

(***************************************************************************)
(* SpecEncode: encode of every text of up to MaxText characters, on        *)
(* one-row images of the three sample pixel lists, before and after an     *)
(* increment.                                                              *)
(***************************************************************************)
InitEncode ==
    \E a \in {1, 2, 3} : \E n \in 4..MaxPixels :
        Construct(Data(a, n), n, [depth |-> 2, edit |-> MaxEncodes, held |-> 0])

NextEncode ==
    \/ \E text \in Texts : Encode(text)
    \/ Increment

SpecEncode == InitEncode /\ [][NextEncode]_vars

(***************************************************************************)
(* SpecDecode: decode, on every one-row image of up to MaxMarked pixels    *)
(* whose pixels each hold the code of '}', of '~' or of 'A'.               *)
(***************************************************************************)
\* Pixels that _decode_pixel reads as 125, 126 and 65.
Marks == {<<1, 2, 5>>, <<1, 2, 6>>, <<0, 6, 5>>}

InitDecode ==
    \E n \in 1..MaxMarked : \E data \in [1..n -> Marks] :
        Construct(data, n, [depth |-> 1, edit |-> 0, held |-> 0])

NextDecode == Decode

SpecDecode == InitDecode /\ [][NextDecode]_vars

(***************************************************************************)
(* SpecChannel: _encode_pixel on one pixel, for every value of a channel   *)
(* and every digit of a code.                                              *)
(***************************************************************************)
Channels == 0..255

\* Codes whose three digits are d, d + 1 and d + 2 (modulo 10), d in 0..9.
Codes == {100 * d + 10 * ((d + 1) % 10) + ((d + 2) % 10) : d \in 0..9}

InitChannel ==
    \E c \in Channels :
        Construct(<<<<c, (c + 100) % 256, (c + 200) % 256>>>>, 1,
                  [depth |-> 1, edit |-> MaxLetters, held |-> 0])

NextChannel == \E letter \in Codes : EncodePixel(letter, 0)

SpecChannel == InitChannel /\ [][NextChannel]_vars

(***************************************************************************)
(* SpecPixellate: pixellate with every step up to MaxStep, on an image of  *)
(* every width and height.                                                 *)
(***************************************************************************)
InitPixellate ==
    \E a \in {1, 2} : \E n \in 1..MaxPixels : \E w \in Widths(n) :
        Construct(Data(a, n), w,
                  [depth |-> 1, edit |-> MaxPixellates, held |-> 0])

NextPixellate == \E step \in 1..MaxStep : Pixellate(step)

SpecPixellate == InitPixellate /\ [][NextPixellate]_vars

(***************************************************************************)
(* SpecJail: jail, on an image of every width from 8 to MaxJailWidth and   *)
(* every height from 3 to MaxJailHeight.                                   *)
(***************************************************************************)
InitJail ==
    \E w \in 8..MaxJailWidth : \E rows \in 3..MaxJailHeight :
        Construct(Data(1, w * rows), w,
                  [depth |-> 1, edit |-> MaxJails, held |-> 0])

NextJail == Jail

SpecJail == InitJail /\ [][NextJail]_vars

(***************************************************************************)
(* What the caller can observe.                                            *)
(***************************************************************************)
OrigVal == ImgVal(Heap, original)

\* The timeline, as the values of its images.
HistVals == [k \in 1..Len(history) |-> ImgVal(Heap, history[k])]

\* The values of all images the caller reaches.
RefVals == [p \in 1..Len(Refs) |-> ImgVal(Heap, Refs[p])]

(***************************************************************************)
(* The properties.                                                         *)
(***************************************************************************)

\* C1: the timeline is never empty and never longer than MAX_HISTORY, and
\* its last entry is an Image, so getCurrent never fails.
TimelineBounded ==
    /\ Len(history) >= 1
    /\ Len(history) <= MAX_HISTORY
    /\ Current \in DOMAIN imgs

\* A full timeline right after the increment that deleted the first oldest edit.
TimelineBoundedWitness ==
    /\ lastOp = "increment"
    /\ nSnap = MAX_HISTORY
    /\ Len(history) = MAX_HISTORY

\* C2: a filter changes only the last entry of the timeline (the earlier
\* entries and the original keep pixels, width and height), and an undo
\* that follows an increment and any filters returns True and leaves as
\* current the image that was current just before the increment.
SnapshotsIsolated ==
    [][/\ lastOp' \in FilterOps =>
            /\ Len(history') = Len(history)
            /\ SubSeq(HistVals', 1, Len(history) - 1)
                   = SubSeq(HistVals, 1, Len(history) - 1)
            /\ OrigVal' = OrigVal
       /\ (lastOp' = "undo" /\ prior.valid) =>
            /\ ret' = "True"
            /\ CurVal' = prior.val]_vars

\* After the undo of an increment that a transposition and an encode followed.
SnapshotsIsolatedWitness ==
    /\ lastOp = "undo"
    /\ ret = "True"
    /\ prior.ops = <<"transpose", "encode">>
    /\ CurVal = prior.val

\* C3: undo on a timeline of one entry returns False and leaves the
\* timeline as it is; on a longer one it removes exactly the last entry,
\* keeps the others in their order and returns True.
UndoContract ==
    [][lastOp' = "undo" =>
          IF Len(history) = 1
          THEN ret' = "False" /\ HistVals' = HistVals
          ELSE /\ ret' = "True"
               /\ HistVals' = SubSeq(HistVals, 1, Len(history) - 1)]_vars

\* After an undo that left two entries that differ.
UndoContractWitness ==
    /\ lastOp = "undo"
    /\ ret = "True"
    /\ Len(history) = 2
    /\ HistVals[1] # HistVals[2]

\* C4, as stated: after k <= 20 increments on a new history the timeline
\* has 1 + k entries, and after 25 it has 20.
SnapshotCountStated ==
    clean =>
        /\ nSnap <= 20 => Len(history) = 1 + nSnap
        /\ nSnap = 25 => Len(history) = 20

\* C4, amended: after k <= 19 increments on a new history the timeline has
\* 1 + k entries, and after 19 or more (so after 20, and after 25) it has 20.
SnapshotCount ==
    clean =>
        /\ nSnap <= MAX_HISTORY - 1 => Len(history) = 1 + nSnap
        /\ nSnap >= MAX_HISTORY - 1 => Len(history) = MAX_HISTORY

\* After 25 increments on a new history.
SnapshotCountWitness ==
    /\ clean
    /\ nSnap = 25
    /\ Len(history) = MAX_HISTORY

\* C5: the original keeps the pixels and dimensions it had at construction,
\* and after clear the timeline is one image with those pixels and dimensions.
OriginalKept ==
    /\ OrigVal = orig0
    /\ lastOp = "clear" =>
          /\ Len(history) = 1
          /\ CurVal = orig0

\* After a clear that followed two filters.
OriginalKeptWitness ==
    /\ lastOp = "clear"
    /\ nEdit >= 2

\* C6: every image has width * height = length, the length of its pixel
\* list, and that length is the one it was built with.
DimensionsMatch ==
    \A i \in DOMAIN imgs :
        /\ imgs[i].width * imgs[i].height = imgs[i].length
        /\ imgs[i].length = Len(bufs[imgs[i].pixels])
        /\ imgs[i].length = Len(orig0.pixels)

\* After a setHeight that went through and changed the height.
DimensionsMatchWitness ==
    /\ lastOp = "setHeight"
    /\ ret = "None"
    /\ imgs[Refs[arg[1]]].height # orig0.height

\* C7: the copy has the width, the height and the pixels of its source and
\* changes no image; a write to an image, or setWidth or setHeight on it,
\* changes no other image.
CopyIsolated ==
    [][/\ lastOp' = "copy" => RefVals' = Append(RefVals, RefVals[arg'[1]])
       /\ lastOp' \in ImageOps =>
            /\ Len(RefVals') = Len(RefVals)
            /\ \A q \in 1..Len(RefVals) :
                   q # arg'[1] => RefVals'[q] = RefVals[q]]_vars

\* After a call that changed the caller's copy and nothing else.
CopyIsolatedWitness ==
    /\ Len(held) = 1
    /\ lastOp \in ImageOps
    /\ ret = "None"
    /\ arg[1] = Len(Refs)
    /\ RefVals[Len(Refs)] # orig0
    /\ \A q \in 1..(Len(Refs) - 1) : RefVals[q] = orig0

\* C8: two transpositions in a row restore the pixels, the width and the
\* height of the image.
TransposeTwice ==
    (lastOp = "transpose" /\ prevOp = "transpose") =>
        /\ ret = "None"
        /\ CurVal = val2

\* After two transpositions of an image of two rows and three columns.
TransposeTwiceWitness ==
    /\ lastOp = "transpose"
    /\ prevOp = "transpose"
    /\ val2.width = 3
    /\ val2.height = 2
    /\ val1 # val2

\* C9: rotateRight then rotateLeft, and rotateLeft then rotateRight,
\* restore the pixels, the width and the height of the image.
RotateRoundTrip ==
    (\/ lastOp = "rotateLeft" /\ prevOp = "rotateRight"
     \/ lastOp = "rotateRight" /\ prevOp = "rotateLeft") =>
        /\ ret = "None"
        /\ CurVal = val2

\* After rotateLeft then rotateRight of an image of three rows and two columns.
RotateRoundTripWitness ==
    /\ lastOp = "rotateRight"
    /\ prevOp = "rotateLeft"
    /\ val2.width = 2
    /\ val2.height = 3
    /\ val1 # val2

\* C10: encode of an ASCII text that fits the image returns True, and the
\* decode that follows returns that text.
StegRoundTrip ==
    /\ (lastOp = "encode" /\ Len(arg) + 4 <= imgs[Current].length) =>
          ret = "True"
    /\ (lastOp = "decode" /\ msg.valid) =>
          /\ ret = "Text"
          /\ out = msg.text

\* C11: decode of an image whose first two pixels are not the begin marker,
\* pixel 0 read as 125 and pixel 1 read as 126, returns None.
DecodeNeedsMarker ==
    (/\ lastOp = "decode"
     /\ ~(/\ imgs[Current].length >= 2
          /\ decode_pixel(Heap, Current, 0) = 125
          /\ decode_pixel(Heap, Current, 1) = 126)) =>
        ret = "None"

\* C12: encode of a text of more than 999999 characters, or of more than
\* the pixels of the current image less four, returns False and leaves every
\* image the caller reaches as it was: the images of the timeline and the
\* original, in their pixels, widths and heights.
EncodeRefusal ==
    [][(/\ lastOp' = "encode"
        /\ \/ Len(arg') > 999999
           \/ Len(arg') + 4 > imgs[Current].length) =>
           /\ ret' = "False"
           /\ RefVals' = RefVals]_vars

\* After encode of one character on an image of four pixels, the second of
\* a timeline of two.
EncodeRefusalWitness ==
    /\ lastOp = "encode"
    /\ Len(arg) = 1
    /\ imgs[Current].length = 4
    /\ Len(history) = 2
    /\ ret = "False"

\* C13: the value that _encode_pixel writes for a channel c and a digit d of
\* the code is c with its last decimal digit replaced by d, 10 * (c div 10)
\* + d, less 10 when that is above 255.
LastDigitReplaced ==
    lastOp = "encode_pixel" =>
        \A ch \in 1..3 :
            LET c == val1.pixels[arg[2] + 1][ch]
                d == Padded(arg[1])[ch]
                n == 10 * (c \div 10) + d
            IN  CurVal.pixels[arg[2] + 1][ch] = IF n > 255 THEN n - 10 ELSE n

\* The pixels of image value v in the block of step rows and step columns,
\* counted from row 0 and column 0, that holds the pixel at row and col.
Block(v, row, col, step) ==
    {c \in (0..(v.height - 1)) \X (0..(v.width - 1)) :
        /\ c[1] \div step = row \div step
        /\ c[2] \div step = col \div step}

\* The sum of channel ch of v over the pixels in cells.
RECURSIVE BlockSum(_, _, _)
BlockSum(v, cells, ch) ==
    IF cells = {} THEN 0
    ELSE LET c == CHOOSE c \in cells : TRUE
         IN  v.pixels[c[1] * v.width + c[2] + 1][ch]
                 + BlockSum(v, cells \ {c}, ch)

\* C14: pixellate(step) gives every pixel, in every channel, the rounded mean
\* of that channel over the pixels of its block that lie in the image: their
\* sum divided by their number, also for the blocks cut by the right and the
\* bottom edge.
PixellateMean ==
    lastOp = "pixellate" =>
        /\ ret = "None"
        /\ CurVal.width = val1.width
        /\ CurVal.height = val1.height
        /\ \A row \in 0..(val1.height - 1) : \A col \in 0..(val1.width - 1) :
              \A ch \in 1..3 :
                LET cells == Block(val1, row, col, arg[1])
                IN  CurVal.pixels[row * val1.width + col + 1][ch]
                        = round(BlockSum(val1, cells, ch), Cardinality(cells))

\* C15: jail on an image of width 8..57 and height 3 or more, where
\* n = (width - 8) // 50 is 0, ends without error, with the two vertical
\* bars of 4 columns at the left and the right and the two horizontal bars
\* of 3 rows at the top and the bottom in (255, 0, 0) and every other pixel
\* as it was.
JailNoInteriorBars ==
    (/\ lastOp = "jail"
     /\ val1.width \in 8..57
     /\ val1.height >= 3) =>
        /\ ret = "None"
        /\ CurVal.width = val1.width
        /\ CurVal.height = val1.height
        /\ \A row \in 0..(val1.height - 1) : \A col \in 0..(val1.width - 1) :
              CurVal.pixels[row * val1.width + col + 1] =
                  IF \/ col < 4 \/ col >= val1.width - 4
                     \/ row < 3 \/ row >= val1.height - 3
                  THEN <<255, 0, 0>>
                  ELSE val1.pixels[row * val1.width + col + 1]

\* C16: after jail on an image of width 58 or more, row 3 (below the top
\* bar, on images high enough to have rows between the horizontal bars)
\* shows n + 2 separate vertical bars of 4 columns each, n = (width - 8) //
\* 50, with at least one column between neighbours, and the numbers of
\* columns between neighbours differ by at most one.
JailEvenlySpaced ==
    (/\ lastOp = "jail"
     /\ val1.width >= 58
     /\ val1.height >= 7) =>
        LET n      == (val1.width - 8) \div 50
            red    == {c \in 0..(val1.width - 1) :
                          CurVal.pixels[3 * val1.width + c + 1] = <<255, 0, 0>>}
            starts == {c \in red : c - 1 \notin red}
            lefts  == {s \in starts : \E u \in starts : u > s}
            gap(s) == (CHOOSE u \in starts :
                          u > s /\ \A v \in starts : v > s => u <= v) - s - 4
        IN  /\ ret = "None"
            /\ Cardinality(starts) = n + 2
            /\ 0 \in starts
            /\ val1.width - 4 \in starts
            /\ \A s \in starts :
                  /\ \A k \in 0..3 : s + k \in red
                  /\ s + 4 \notin red
            /\ \A s \in lefts : \A t \in lefts : gap(s) - gap(t) <= 1

\* C17: encode of a text that fits the image, on an image with every
\* channel in 0..255, succeeds having written only channels in 0..255: when
\* it has returned every channel of the current image is in 0..255, and the
\* pixels from flat index len(text) + 4 on are as they were.
EncodeInRange ==
    (/\ lastOp = "encode"
     /\ Len(arg) + 4 <= Len(val1.pixels)
     /\ \A k \in 1..Len(val1.pixels) : IsPixel(val1.pixels[k])) =>
        /\ ret = "True"
        /\ \A k \in 1..Len(CurVal.pixels) : IsPixel(CurVal.pixels[k])
        /\ \A k \in (Len(arg) + 5)..Len(CurVal.pixels) :
              CurVal.pixels[k] = val1.pixels[k]

====
